---- MODULE Spec2Model ----
(***************************************************************************)
(* OneDrive.py: the share-link classifier and rewrite rules, the redirect  *)
(* expander, the POST / handler and the JSON-file history store.           *)
(* URLs are TLA+ strings; the urllib.parse functions the program calls are *)
(* modelled on them character by character.                                *)
(***************************************************************************)
EXTENDS Integers, Sequences, FiniteSets, TLC

VARIABLES
    share_url,      \* the URL given to the operation
    link_pc,        \* "request" before the operation ran, "done" after
    link_op,        \* which operation ran
    link_out,       \* what the operation returned / raised / rendered
    file,           \* HISTORY_FILE: absent, a JSON array, or a partial write
    now,            \* datetime.now(), counted in requests
    inserted_at,    \* url -> time of the insert that put it in the file
    saved_at,       \* url -> time of the latest save of the url
    last_save,      \* the latest save_history request and its response
    req             \* concurrent requests: position and local variables

vars == <<share_url, link_pc, link_op, link_out, file, now, inserted_at,
          saved_at, last_save, req>>

(***************************************************************************)
(* str operations                                                          *)
(***************************************************************************)
Ch(s, i) == SubSeq(s, i, i)

MinOf(S) == CHOOSE x \in S : \A y \in S : x <= y

\* s[a-1:b] of Python, positions counted from 1 and clamped to the string.
Slice(s, a, b) ==
    LET lo == IF a < 1 THEN 1 ELSE a
        hi == IF b > Len(s) THEN Len(s) ELSE b
    IN  IF lo > hi THEN "" ELSE SubSeq(s, lo, hi)

From(s, a) == Slice(s, a, Len(s))

RECURSIVE Find(_, _, _)
\* s.find(t, start): the first position >= start where t occurs, 0 if none.
Find(s, t, start) ==
    IF start + Len(t) - 1 > Len(s) THEN 0
    ELSE IF SubSeq(s, start, start + Len(t) - 1) = t THEN start
    ELSE Find(s, t, start + 1)

RECURSIVE RFindFrom(_, _, _)
\* the last position <= i where t occurs in s, 0 if none
RFindFrom(s, t, i) ==
    IF i < 1 THEN 0
    ELSE IF SubSeq(s, i, i + Len(t) - 1) = t THEN i
    ELSE RFindFrom(s, t, i - 1)

\* s.rfind(t)
RFind(s, t) == RFindFrom(s, t, Len(s) - Len(t) + 1)

Contains(s, t) == Find(s, t, 1) # 0

StartsWith(s, t) == Len(t) <= Len(s) /\ SubSeq(s, 1, Len(t)) = t

EndsWith(s, t) == Len(t) <= Len(s) /\ SubSeq(s, Len(s) - Len(t) + 1, Len(s)) = t

UpperLetters == "ABCDEFGHIJKLMNOPQRSTUVWXYZ"

LowerLetters == "abcdefghijklmnopqrstuvwxyz"

Digits == "0123456789"

\* the characters of a string, as a set
CharSet(s) == {Ch(s, i) : i \in 1..Len(s)}

UpperSet == CharSet(UpperLetters)

AlphaSet == CharSet(UpperLetters) \cup CharSet(LowerLetters)

DigitSet == CharSet(Digits)

LowerTable == [c \in UpperSet |-> Ch(LowerLetters, Find(UpperLetters, c, 1))]

IsAlpha(c) == c \in AlphaSet

LowerChar(c) == IF c \in UpperSet THEN LowerTable[c] ELSE c

RECURSIVE LowerUpTo(_, _)
\* the first n characters of s, in lower case
LowerUpTo(s, n) == IF n = 0 THEN "" ELSE LowerUpTo(s, n - 1) \o LowerChar(Ch(s, n))

\* str.lower()
Lower(s) == LowerUpTo(s, Len(s))

\* s.partition(t): <<before, found, after>>
Partition(s, t) ==
    LET i == Find(s, t, 1)
    IN  IF i = 0 THEN <<s, FALSE, "">>
        ELSE <<Slice(s, 1, i - 1), TRUE, From(s, i + Len(t))>>

\* s.rpartition(t)[2]
AfterLast(s, t) ==
    LET i == RFind(s, t) IN IF i = 0 THEN s ELSE From(s, i + Len(t))

RECURSIVE Split(_, _)
\* s.split(sep)
Split(s, sep) ==
    LET i == Find(s, sep, 1)
    IN  IF i = 0 THEN <<s>>
        ELSE <<Slice(s, 1, i - 1)>> \o Split(From(s, i + Len(sep)), sep)

RECURSIVE Replace(_, _, _)
\* s.replace(c, d) for a one-character c
Replace(s, c, d) ==
    IF s = "" THEN ""
    ELSE (IF Ch(s, 1) = c THEN d ELSE Ch(s, 1)) \o Replace(From(s, 2), c, d)

(***************************************************************************)
(* urllib.parse, as OneDrive.py calls it (CPython 3.11)                    *)
(***************************************************************************)
\* The characters 0x20 .. 0x7E in code order. A TLA+ string cannot hold the
\* backquote (0x60): a space holds its place and no URL of the model has it.
Printable ==
    " !\"#$%&'()*+,-./0123456789:;<=>?@ABCDEFGHIJKLMNOPQRSTUVWXYZ[\\]^_ abcdefghijklmnopqrstuvwxyz{|}~"

HexDigits == "0123456789ABCDEF"

HexSet == CharSet(HexDigits) \cup CharSet("abcdef")

IsHex(c) == c \in HexSet

HexVal(c) ==
    IF Contains(HexDigits, c) THEN Find(HexDigits, c, 1) - 1
    ELSE Find("abcdef", c, 1) + 9

\* The code of a printable character.
Ord(c) == Find(Printable, c, 1) + 31

SchemeSet == AlphaSet \cup DigitSet \cup CharSet("+-.")

IsSchemeChar(c) == c \in SchemeSet

UsesParams ==
    {"", "ftp", "hdl", "prospero", "http", "imap", "https", "shttp", "rtsp",
     "rtspu", "sip", "sips", "mms", "sftp", "tel"}

UsesNetloc ==
    {"", "ftp", "http", "gopher", "nntp", "telnet", "imap", "wais", "file",
     "mms", "https", "shttp", "snews", "prospero", "rtsp", "rtspu", "rsync",
     "svn", "svn+ssh", "sftp", "nfs", "git", "git+ssh", "ws", "wss"}

\* ipaddress.ip_address on a bracketed host: the IPv6 literals the model knows.
ValidBracketedHost(h) == h \in {"::1"}

\* _splitnetloc(url, 2): the position of the first of / ? # after the "//".
NetlocEnd(url) ==
    LET ds == {Find(url, "/", 3), Find(url, "?", 3), Find(url, "#", 3)} \ {0}
    IN  IF ds = {} THEN Len(url) + 1 ELSE MinOf(ds)

\* urlsplit, the scheme: <<scheme, rest>>
SplitScheme(url) ==
    LET i == Find(url, ":", 1)
    IN  IF /\ i > 1
           /\ IsAlpha(Ch(url, 1))
           /\ \A k \in 1..(i - 1) : IsSchemeChar(Ch(url, k))
        THEN <<Lower(Slice(url, 1, i - 1)), From(url, i + 1)>>
        ELSE <<"", url>>

\* urlsplit, the netloc: <<netloc, rest>>
SplitNetloc(url) ==
    IF Slice(url, 1, 2) = "//"
    THEN <<Slice(url, 3, NetlocEnd(url) - 1), From(url, NetlocEnd(url))>>
    ELSE <<"", url>>

\* urlsplit, the bracket checks that raise ValueError
BadBrackets(netloc) ==
    \/ Contains(netloc, "[") /\ ~Contains(netloc, "]")
    \/ Contains(netloc, "]") /\ ~Contains(netloc, "[")
    \/ /\ Contains(netloc, "[")
       /\ Contains(netloc, "]")
       /\ ~ValidBracketedHost(Partition(Partition(netloc, "[")[3], "]")[1])

\* url.split(c, 1) when c is in url: <<before, after>>, else <<url, "">>
SplitOnce(url, c) ==
    LET i == Find(url, c, 1)
    IN  IF i = 0 THEN <<url, "">> ELSE <<Slice(url, 1, i - 1), From(url, i + 1)>>

UrlSplitResult(scheme, netloc, pq, fragment) ==
    [ok |-> ~BadBrackets(netloc), scheme |-> scheme, netloc |-> netloc,
     path |-> pq[1], query |-> pq[2], fragment |-> fragment]

UrlSplitQuery(scheme, netloc, uf) ==
    UrlSplitResult(scheme, netloc, SplitOnce(uf[1], "?"), uf[2])

UrlSplitFragment(scheme, nr) ==
    UrlSplitQuery(scheme, nr[1], SplitOnce(nr[2], "#"))

UrlSplitNetloc(sr) == UrlSplitFragment(sr[1], SplitNetloc(sr[2]))

RECURSIVE LStrip(_)
\* url.lstrip(_WHATWG_C0_CONTROL_OR_SPACE), for the space
LStrip(url) == IF url # "" /\ Ch(url, 1) = " " THEN LStrip(From(url, 2)) ELSE url

\* urlsplit(url): ok = FALSE stands for the ValueError it raises
UrlSplit(url) == UrlSplitNetloc(SplitScheme(LStrip(url)))

\* _splitparams(url): <<path, params>>
SplitParams(url) ==
    LET i == IF Contains(url, "/") THEN Find(url, ";", RFind(url, "/")) ELSE Find(url, ";", 1)
    IN  IF i = 0 THEN <<url, "">> ELSE <<Slice(url, 1, i - 1), From(url, i + 1)>>

UrlParseResult(s, pp) ==
    [ok |-> s.ok, scheme |-> s.scheme, netloc |-> s.netloc, path |-> pp[1],
     params |-> pp[2], query |-> s.query, fragment |-> s.fragment]

UrlParseParams(s) ==
    UrlParseResult(s, IF s.scheme \in UsesParams /\ Contains(s.path, ";")
                      THEN SplitParams(s.path) ELSE <<s.path, "">>)

\* urlparse(url)
UrlParse(url) == UrlParseParams(UrlSplit(url))

\* _hostinfo[0] of the text after the last "@"
HostInfoName(hostinfo) ==
    IF Contains(hostinfo, "[") THEN Partition(Partition(hostinfo, "[")[3], "]")[1]
    ELSE Partition(hostinfo, ":")[1]

\* hostname.lower() + percent + zone
LowerKeepZone(hostname) ==
    IF Contains(hostname, "%")
    THEN Lower(Partition(hostname, "%")[1]) \o "%" \o Partition(hostname, "%")[3]
    ELSE Lower(hostname)

\* ParseResult.hostname, with None written as ""
Hostname(netloc) == LowerKeepZone(HostInfoName(AfterLast(netloc, "@")))

RECURSIVE Unquote(_)
\* unquote(s): %XX decoded for the printable ASCII codes
Unquote(s) ==
    IF s = "" THEN ""
    ELSE IF /\ Ch(s, 1) = "%"
            /\ Len(s) >= 3
            /\ IsHex(Ch(s, 2))
            /\ IsHex(Ch(s, 3))
            /\ 16 * HexVal(Ch(s, 2)) + HexVal(Ch(s, 3)) \in (32..126) \ {96}
         THEN Ch(Printable, 16 * HexVal(Ch(s, 2)) + HexVal(Ch(s, 3)) - 31)
                  \o Unquote(From(s, 4))
         ELSE Ch(s, 1) \o Unquote(From(s, 2))

\* the characters quote_plus leaves as they are
SafeSet == AlphaSet \cup DigitSet \cup CharSet("_.-~")

\* quote_plus of one character
QuoteChar(c) ==
    IF c \in SafeSet THEN c
    ELSE IF c = " " THEN "+"
    ELSE "%" \o Ch(HexDigits, (Ord(c) \div 16) + 1) \o Ch(HexDigits, (Ord(c) % 16) + 1)

RECURSIVE QuotePlus(_)
\* quote_plus(s)
QuotePlus(s) == IF s = "" THEN "" ELSE QuoteChar(Ch(s, 1)) \o QuotePlus(From(s, 2))

\* parse_qsl, one field: the pair it appends, if any
QslField(name_value, nv) ==
    IF name_value # "" /\ nv[2] /\ nv[3] # ""
    THEN <<<<Unquote(Replace(nv[1], "+", " ")), Unquote(Replace(nv[3], "+", " "))>>>>
    ELSE <<>>

RECURSIVE QslOf(_)
\* the loop of parse_qsl over the fields of the query
QslOf(fields) ==
    IF fields = <<>> THEN <<>>
    ELSE QslField(Head(fields), Partition(Head(fields), "=")) \o QslOf(Tail(fields))

\* parse_qsl(qs): the list of (name, value) pairs
ParseQsl(qs) == IF qs = "" THEN <<>> ELSE QslOf(Split(qs, "&"))

\* d[k] = v of a dict kept as the sequence of its items
DictSet(d, p) ==
    IF \E i \in 1..Len(d) : d[i][1] = p[1]
    THEN [i \in 1..Len(d) |-> IF d[i][1] = p[1] THEN p ELSE d[i]]
    ELSE Append(d, p)

RECURSIVE DictOf(_)
\* dict(pairs): a later pair with the same key replaces the value and keeps
\* the place of the key
DictOf(pairs) ==
    IF pairs = <<>> THEN <<>>
    ELSE DictSet(DictOf(SubSeq(pairs, 1, Len(pairs) - 1)), pairs[Len(pairs)])

HasKey(d, k) == \E i \in 1..Len(d) : d[i][1] = k

Get(d, k) == d[CHOOSE i \in 1..Len(d) : d[i][1] = k][2]

RECURSIVE UrlEncode(_)
\* urlencode(d, doseq=True) of a dict of str values
UrlEncode(d) ==
    IF d = <<>> THEN ""
    ELSE (IF Len(d) = 1 THEN "" ELSE UrlEncode(SubSeq(d, 1, Len(d) - 1)) \o "&")
             \o QuotePlus(d[Len(d)][1]) \o "=" \o QuotePlus(d[Len(d)][2])

\* urlunsplit((scheme, netloc, url, query, fragment))
UrlUnsplit(scheme, netloc, url, query, fragment) ==
    (IF scheme # "" THEN scheme \o ":" ELSE "")
        \o (IF netloc # "" \/ (scheme # "" /\ scheme \in UsesNetloc /\ Slice(url, 1, 2) # "//")
            THEN "//" \o netloc \o (IF url # "" /\ Slice(url, 1, 1) # "/" THEN "/" ELSE "")
            ELSE "")
        \o url
        \o (IF query # "" THEN "?" \o query ELSE "")
        \o (IF fragment # "" THEN "#" \o fragment ELSE "")

\* urlunparse((scheme, netloc, path, params, query, fragment))
UrlUnparse(scheme, netloc, path, params, query, fragment) ==
    UrlUnsplit(scheme, netloc, IF params # "" THEN path \o ";" \o params ELSE path,
               query, fragment)

(***************************************************************************)
(* What a function hands back: a value, or the exception it raises.        *)
(***************************************************************************)
Return(v) == [kind |-> "return", exc |-> "", value |-> v]

Raise(e, msg) == [kind |-> "raise", exc |-> e, value |-> msg]

\* The fixed texts of the messages, in English; the text taken from the
\* input is spliced in as the code does.
MSG_SCHEME == "enter a share link that starts with http:// or https://"

MSG_HOST == "unsupported link domain: only OneDrive/SharePoint/21Vianet share links"

MSG_EXPAND == "cannot expand the link: "

MSG_EMPTY == "fill in the share link"

MSG_PATTERN(url) ==
    "use a standard OneDrive/SharePoint share link.\n"
        \o "supported format: https://domain/:u:/g/personal/<user>/<token>\n"
        \o "current link: " \o url

INVALID_IPV6 == Raise("ValueError", "Invalid IPv6 URL")

(***************************************************************************)
(* is_onedrive_supported_host                                              *)
(***************************************************************************)
SupportedSuffixes ==
    {"1drv.ms", "onedrive.live.com", "sharepoint.com", "my.sharepoint.com",
     "sharepoint.cn", "my.sharepoint.cn"}

\* any(host.endswith(suffix) for suffix in (...)), after the empty-host test
HostSupported(host) ==
    IF host = "" THEN FALSE
    ELSE \E suffix \in SupportedSuffixes : EndsWith(host, suffix)

\* (urlparse(url).hostname or "").lower()
SupportedHostOf(parsed) == Lower(Hostname(parsed.netloc))

\* the value returned when urlparse(url) does not raise
is_onedrive_supported_host(url) == HostSupported(SupportedHostOf(UrlParse(url)))

(***************************************************************************)
(* is_folder_link                                                          *)
(***************************************************************************)
FolderPath(path_lower) ==
    \/ Contains(path_lower, ":f:")
    \/ Contains(path_lower, ":b:")
    \/ Contains(path_lower, "forms/allitems.aspx")

is_folder_link(url) == FolderPath(Lower(UrlParse(url).path))

(***************************************************************************)
(* convert_sharepoint_to_direct_link                                       *)
(***************************************************************************)
SharePrefix == "/:u:/g/personal/"

\* the end of the run [^/?#]+ that starts at t0 (t0 - 1 when it is empty)
TokenEnd(path, t0) ==
    LET stops == {Find(path, "/", t0), Find(path, "?", t0), Find(path, "#", t0)} \ {0}
    IN  IF stops = {} THEN Len(path) ELSE MinOf(stops) - 1

\* ([^/]+)/([^/?#]+) from position u0, slash being the first "/" at or after
\* u0: [^/]+ is greedy and must be followed by "/", so only its longest run
\* can match
MatchGroups(path, u0, slash) ==
    [ok |-> slash > u0 /\ TokenEnd(path, slash + 1) >= slash + 1,
     user |-> Slice(path, u0, slash - 1),
     token |-> Slice(path, slash + 1, TokenEnd(path, slash + 1))]

\* the pattern /:u:/g/personal/([^/]+)/([^/?#]+) tried at position i of path
MatchAt(path, i) ==
    IF Slice(path, i, i + Len(SharePrefix) - 1) = SharePrefix
    THEN MatchGroups(path, i + Len(SharePrefix), Find(path, "/", i + Len(SharePrefix)))
    ELSE [ok |-> FALSE, user |-> "", token |-> ""]

\* the positions of path where the pattern matches
MatchPositions(path) == {i \in 1..Len(path) : MatchAt(path, i).ok}

\* re.search: the match at the leftmost position
ReSearch(path) ==
    IF MatchPositions(path) = {} THEN [ok |-> FALSE, user |-> "", token |-> ""]
    ELSE MatchAt(path, MinOf(MatchPositions(path)))

\* domain = parsed.netloc
DomainOf(parsed) == parsed.netloc

\* lines 117-129, with the match in hand
SharepointResult(url, domain, match) ==
    IF match.ok
    THEN Return("https://" \o domain \o "/personal/" \o match.user
                    \o "/_layouts/52/download.aspx?share=" \o match.token)
    ELSE Raise("OneDriveLinkError", MSG_PATTERN(url))

SharepointOf(url, parsed) ==
    IF ~parsed.ok THEN INVALID_IPV6
    ELSE SharepointResult(url, DomainOf(parsed), ReSearch(parsed.path))

convert_sharepoint_to_direct_link(url) == SharepointOf(url, UrlParse(url))

(***************************************************************************)
(* ensure_download_param_fallback, convert_personal_onedrive_to_direct_link*)
(***************************************************************************)
\* dict(parse_qsl(parsed.query))
QueryDict(query) == DictOf(ParseQsl(query))

\* lines 163-164: query_pairs after the download test
WithDownload(query_pairs) ==
    IF \E i \in 1..Len(query_pairs) : Lower(query_pairs[i][1]) = "download"
    THEN query_pairs
    ELSE Append(query_pairs, <<"download", "1">>)

FallbackOf(parsed) ==
    IF ~parsed.ok THEN INVALID_IPV6
    ELSE Return(UrlUnparse(parsed.scheme, parsed.netloc, parsed.path, parsed.params,
                           UrlEncode(WithDownload(QueryDict(parsed.query))),
                           parsed.fragment))

ensure_download_param_fallback(url) == FallbackOf(UrlParse(url))

\* which of the three rules of convert_personal_onedrive_to_direct_link fires
PersonalBranch(query_params) ==
    IF HasKey(query_params, "redeem") THEN "redeem"
    ELSE IF HasKey(query_params, "resid") /\ HasKey(query_params, "authkey")
    THEN "resid"
    ELSE "fallback"

PersonalResult(url, query_params) ==
    IF PersonalBranch(query_params) = "redeem"
    THEN Return("https://dlink.host/1drv/" \o Get(query_params, "redeem"))
    ELSE IF PersonalBranch(query_params) = "resid"
    THEN Return("https://onedrive.live.com/download?resid="
                    \o Get(query_params, "resid")
                    \o "&authkey=" \o Get(query_params, "authkey"))
    ELSE ensure_download_param_fallback(url)

PersonalOf(url, parsed) ==
    IF ~parsed.ok THEN INVALID_IPV6
    ELSE PersonalResult(url, QueryDict(parsed.query))

convert_personal_onedrive_to_direct_link(url) == PersonalOf(url, UrlParse(url))

(***************************************************************************)
(* normalize_url: the responses are the network's choice                   *)
(***************************************************************************)
NoResponse == [fail |-> TRUE, status |-> 0, is_redirect |-> FALSE, url |-> ""]

Response(st, redir, u) == [fail |-> FALSE, status |-> st, is_redirect |-> redir, url |-> u]

\* NeedsGet without the 403 case
NeedsGetOn405(resp) == resp.status \in {405} \/ resp.is_redirect

\* whether the HEAD response makes the code reissue the request as a GET
NeedsGet(resp) == resp.status \in {405, 403} \/ resp.is_redirect

\* [out, requests]: what it returns or raises, and the requests it issued
normalize_url(original_url, head, get) ==
    IF head.fail
    THEN [out |-> Raise("OneDriveLinkError", MSG_EXPAND \o "HEAD"),
          requests |-> <<"HEAD">>]
    ELSE IF NeedsGet(head)
    THEN IF get.fail
         THEN [out |-> Raise("OneDriveLinkError", MSG_EXPAND \o "GET"),
               requests |-> <<"HEAD", "GET">>]
         ELSE [out |-> Return(get.url), requests |-> <<"HEAD", "GET">>]
    ELSE [out |-> Return(head.url), requests |-> <<"HEAD">>]

(***************************************************************************)
(* parse_onedrive_direct_link                                              *)
(***************************************************************************)
\* re.match(r"^https?://", input_url, flags=re.IGNORECASE)
HasHttpScheme(input_url) ==
    \/ Lower(Slice(input_url, 1, 7)) = "http://"
    \/ Lower(Slice(input_url, 1, 8)) = "https://"

\* host = parsed.netloc.lower()
DialectHost(parsed) == Lower(parsed.netloc)

\* any(domain in host for domain in [...])
IsSharePoint(host) ==
    \E domain \in {"sharepoint.com", "sharepoint.cn", "my.sharepoint"} :
        Contains(host, domain)

\* the message printed after the personal rule
Printed(direct_link) ==
    IF Contains(direct_link, "dlink.host/1drv/") THEN "dlink"
    ELSE IF Contains(direct_link, "onedrive.live.com/download?resid=") THEN "optimized"
    ELSE "fallback"

\* what parse_onedrive_direct_link did: [out, requests, rule, expanded, printed]
Parsed(out, requests, rule, expanded, printed) ==
    [out |-> out, requests |-> requests, rule |-> rule, expanded |-> expanded,
     printed |-> printed]

\* lines 200-211, with the expanded URL in hand
PersonalLink(n, direct) ==
    Parsed(direct, n.requests, "personal", n.out.value,
           IF direct.kind = "return" THEN Printed(direct.value) ELSE "")

\* lines 197-211
PersonalDialect(n) ==
    IF n.out.kind = "raise" THEN Parsed(n.out, n.requests, "none", "", "")
    ELSE PersonalLink(n, convert_personal_onedrive_to_direct_link(n.out.value))

\* lines 181-211, with urlparse(input_url) in hand; is_onedrive_supported_host
\* is the first to call it, and its ValueError leaves the function there
Classify(input_url, parsed, head, get) ==
    IF ~HasHttpScheme(input_url)
    THEN Parsed(Raise("OneDriveLinkError", MSG_SCHEME), <<>>, "none", "", "")
    ELSE IF ~parsed.ok
    THEN Parsed(INVALID_IPV6, <<>>, "none", "", "")
    ELSE IF ~is_onedrive_supported_host(input_url)
    THEN Parsed(Raise("OneDriveLinkError", MSG_HOST), <<>>, "none", "", "")
    ELSE IF IsSharePoint(DialectHost(parsed))
    THEN Parsed(convert_sharepoint_to_direct_link(input_url), <<>>, "enterprise", "", "")
    ELSE PersonalDialect(normalize_url(input_url, head, get))

parse_onedrive_direct_link(input_url, head, get) ==
    Classify(input_url, UrlParse(input_url), head, get)

(***************************************************************************)
(* index_post                                                              *)
(***************************************************************************)
RECURSIVE Strip(_)
\* str.strip() of the spaces at both ends
Strip(s) ==
    IF s = "" THEN ""
    ELSE IF Ch(s, 1) = " " THEN Strip(From(s, 2))
    ELSE IF Ch(s, Len(s)) = " " THEN Strip(Slice(s, 1, Len(s) - 1))
    ELSE s

\* [rendered, result, error, escaped, parse]: the page rendered (result or
\* error set), or the exception that leaves the handler; parse is what
\* parse_onedrive_direct_link did (kind "none": it was not called)
Page(rendered, result, error, escaped, parse) ==
    [rendered |-> rendered, result |-> result, error |-> error, escaped |-> escaped,
     parse |-> parse]

\* lines 257-271
Render(p) ==
    IF p.out.kind = "return" THEN Page(TRUE, p.out.value, "", "", p)
    ELSE IF p.out.exc = "OneDriveLinkError" THEN Page(TRUE, "", p.out.value, "", p)
    ELSE Page(FALSE, "", "", p.out.exc, p)

IndexPostOf(share, head, get) ==
    IF share = ""
    THEN Page(TRUE, "", MSG_EMPTY, "",
              Parsed([kind |-> "none", exc |-> "", value |-> ""], <<>>, "none", "", ""))
    ELSE Render(parse_onedrive_direct_link(share, head, get))

index_post(form_share_url, head, get) == IndexPostOf(Strip(form_share_url), head, get)

\* whether POST / with this form field issues a request to the network
ReachesNetwork(form_share_url) ==
    index_post(form_share_url, NoResponse, NoResponse).parse.requests # <<>>

(***************************************************************************)
(* The history store: load_history, save_history_to_file, save_history,    *)
(* get_history                                                             *)
(***************************************************************************)
HISTORY_LIMIT == 100

\* a key the request body does not have
Absent == "<absent>"

\* request.get_json() gave nothing
NoJson == [kind |-> "none"]

Body(url, id, remark, timestamp, original_url) ==
    [kind |-> "json", url |-> url, id |-> id, remark |-> remark,
     timestamp |-> timestamp, original_url |-> original_url]

NoFile == [kind |-> "absent"]

\* HISTORY_FILE holding the JSON text of the array data
JsonFile(data) == [kind |-> "json", data |-> data]

\* HISTORY_FILE opened for writing and not written to the end
PartialFile == [kind |-> "partial"]

\* load_history(): [] when the file is absent or json.load raises
load_history(f) == IF f.kind = "json" THEN f.data ELSE <<>>

\* save_history_to_file(history_data): [file, ok] for what happens to the write
save_history_to_file(f, history_data, io) ==
    IF io = "open_fails" THEN [file |-> f, ok |-> FALSE]
    ELSE IF io = "dump_fails" THEN [file |-> PartialFile, ok |-> FALSE]
    ELSE [file |-> JsonFile(history_data), ok |-> TRUE]

\* data.get(key, default)
GetOr(v, default) == IF v = Absent THEN default ELSE v

\* lines 285-291, at time t
HistoryItem(data, t) ==
    [id |-> GetOr(data.id, ToString(t * 1000)),
     url |-> data.url,
     remark |-> GetOr(data.remark, "unnamed file"),
     timestamp |-> GetOr(data.timestamp, "time " \o ToString(t)),
     original_url |-> GetOr(data.original_url, "")]

\* next((i for i, item in enumerate(history) if item['url'] == url), -1),
\* counted from 1, 0 for -1
ExistingIndex(history, url) ==
    IF \E i \in 1..Len(history) : history[i].url = url
    THEN MinOf({i \in 1..Len(history) : history[i].url = url})
    ELSE 0

\* Merge without the search for the url
MergeInsert(history, history_item) == <<history_item>> \o history

\* Merge moving a url already stored to the front
MergeToFront(history, history_item) ==
    <<history_item>> \o SelectSeq(history, LAMBDA e : e.url # history_item.url)

\* lines 294-298
Merge(history, history_item) ==
    IF ExistingIndex(history, history_item.url) # 0
    THEN [history EXCEPT ![ExistingIndex(history, history_item.url)] = history_item]
    ELSE <<history_item>> \o history

\* Trim keeping the tail of the list
TrimFront(history) ==
    IF Len(history) > HISTORY_LIMIT
    THEN SubSeq(history, Len(history) - HISTORY_LIMIT + 1, Len(history))
    ELSE history

\* lines 301-302
Trim(history) ==
    IF Len(history) > HISTORY_LIMIT THEN SubSeq(history, 1, HISTORY_LIMIT) ELSE history

\* not data or 'url' not in data
BadBody(data) == IF data.kind = "none" THEN TRUE ELSE data.url = Absent

UrlsOf(history) == {history[i].url : i \in 1..Len(history)}

Success(msg) == [success |-> TRUE, text |-> msg]

Failure(msg) == [success |-> FALSE, text |-> msg]

\* what a save_history request did: the body, the item, the place of the url
\* in the loaded history, the length loaded, the urls it dropped, the url
\* inserted earliest before it, the response
Saved(data, item, loaded, written, oldest, response) ==
    [kind |-> "save", data |-> data, item |-> item,
     existing_index |-> ExistingIndex(loaded, item.url), loaded |-> Len(loaded),
     dropped |-> UrlsOf(loaded) \ UrlsOf(written), oldest |-> oldest,
     response |-> response]

\* the times kept for the urls in the file after a write of written
TimesAfter(times, written, url, t, keep) ==
    [u \in UrlsOf(written) |->
        IF u = url /\ ~(keep /\ u \in DOMAIN times) THEN t ELSE times[u]]

\* the url in the file that was inserted earliest
Oldest(f) ==
    IF UrlsOf(load_history(f)) = {} THEN Absent
    ELSE CHOOSE u \in UrlsOf(load_history(f)) :
             \A v \in UrlsOf(load_history(f)) : inserted_at[u] <= inserted_at[v]

(***************************************************************************)
(* The inputs: URLs put together from these parts, then read back from the *)
(* text by the functions above.                                            *)
(***************************************************************************)
Schemes == {"https://", "http://", "HtTpS://", "ftp://"}

Authorities ==
    {"1drv.ms", "onedrive.live.com", "ONEDRIVE.Live.com", "contoso-my.sharepoint.cn",
     "Contoso.SharePoint.com", "evil-sharepoint.com.attacker.net", "attacker.net",
     "sharepoint.com@1drv.ms", "my.sharepoint@onedrive.live.com", "1drv.ms@attacker.net",
     "alice@contoso.sharepoint.com:8443", "1drv.ms:sharepoint.cn", "bob:pw@1drv.ms:443",
     "my.sharepoint.1drv.ms", "evil1drv.ms", "[1drv.ms", "[attacker.net", "[::1]", ""}

SharePaths ==
    {"/:u:/g/personal/alice_contoso_cn/XY16c5xG", "/:u:/g/personal/alice/tok;x",
     "/:u:/g/personal/alice/;x", "/:u:/g/personal/alice/", "/:u:/g/personal//tok",
     "/:u:/g/personal/alice", "/sites/:u:/g/personal/al/to/more",
     "/:u:/g/personal//:u:/g/personal/al/to", "/:U:/g/personal/alice/tok",
     "/:f:/g/personal/alice/tok", "/u/s!Ab;c", "/", ""}

Queries ==
    {"", "?redeem=aHR0cHM", "?resid=AB!12&authkey=!xy", "?authkey=!xy&a=1&resid=AB",
     "?resid=AB&e=5", "?a=1&a=2", "?cid=7&a=b%20c&d=e+f", "?download=1",
     "?Download=0&x=y", "?download=1&DOWNLOAD=2", "?download=", "?flag&a=", "?a=1&&b=%zz",
     "?k%3D=v%26w;z", "?redeem=&x=1"}

Fragments == {"", "#frag", "#f?g=1"}

\* the form field share_url of POST /
PostUrls ==
    {s \o a \o p \o q : s \in Schemes, a \in Authorities,
                        p \in {"/:u:/g/personal/alice/tok", "/u/s!Abc", ""},
                        q \in {"", "?e=1"}}
        \cup {"", "   ", " https://1drv.ms/u/s!Abc ", "1drv.ms/u/s!Abc", "https:/1drv.ms/x",
              "//1drv.ms/x", "https://"}

\* the URLs handed to the enterprise rewrite rule
SharepointUrls ==
    {s \o a \o p \o q \o f :
        s \in {"https://", "HTTP://"},
        a \in {"contoso-my.sharepoint.cn", "Contoso.SharePoint.com",
               "alice@contoso.sharepoint.com:8443", "onedrive.live.com", "[1drv.ms", ""},
        p \in SharePaths,
        q \in {"", "?e=5", "?x=/:u:/g/personal/q/r"},
        f \in {"", "#/:u:/g/personal/f/g"}}

\* the expanded URLs handed to the personal rewrite rule
PersonalUrls ==
    {s \o a \o p \o q \o f :
        s \in {"https://", "HTTP://"},
        a \in {"onedrive.live.com", "bob:pw@1drv.ms:443", ""},
        p \in {"/redir", "/u/s!Ab;c", ""},
        q \in Queries, f \in Fragments}

RewriteUrls == SharepointUrls \cup PersonalUrls

\* the final URLs the network may report
ExpandedUrls ==
    {"https://onedrive.live.com/redir?resid=AB!12&authkey=!xy",
     "https://onedrive.live.com/?redeem=aHR0cHM",
     "https://onedrive.live.com/view.aspx?cid=7&a=x&a=y#top",
     "https://onedrive.live.com/download?Download=1"}

Statuses == {<<200, FALSE>>, <<404, FALSE>>, <<403, FALSE>>, <<405, FALSE>>, <<302, TRUE>>}

HeadResponses ==
    {NoResponse} \cup {Response(st[1], st[2], u) : st \in Statuses, u \in ExpandedUrls}

GetResponses == {NoResponse} \cup {Response(200, FALSE, u) : u \in ExpandedUrls}

(***************************************************************************)
(* The link operations as actions: one request, from "request" to "done".  *)
(***************************************************************************)
NoOut == [kind |-> "none"]

HistoryIdle ==
    /\ file = NoFile
    /\ now = 0
    /\ inserted_at = <<>>
    /\ saved_at = <<>>
    /\ last_save = [kind |-> "none"]
    /\ req = <<>>

history_vars == <<file, now, inserted_at, saved_at, last_save, req>>

InitLink(urls) ==
    /\ share_url \in urls
    /\ link_pc = "request"
    /\ link_op = "none"
    /\ link_out = NoOut
    /\ HistoryIdle

\* POST /: the network answers only the requests the handler issues
IndexPost ==
    /\ link_pc = "request"
    /\ \E head \in IF ReachesNetwork(share_url) THEN HeadResponses ELSE {NoResponse} :
         \E get \in IF ~head.fail /\ NeedsGet(head) THEN GetResponses ELSE {NoResponse} :
            link_out' = index_post(share_url, head, get)
    /\ link_pc' = "done"
    /\ link_op' = "index_post"
    /\ UNCHANGED <<share_url, history_vars>>

ConvertSharepoint ==
    /\ link_pc = "request"
    /\ link_out' = convert_sharepoint_to_direct_link(share_url)
    /\ link_pc' = "done"
    /\ link_op' = "convert_sharepoint_to_direct_link"
    /\ UNCHANGED <<share_url, history_vars>>

ConvertPersonal ==
    /\ link_pc = "request"
    /\ link_out' = convert_personal_onedrive_to_direct_link(share_url)
    /\ link_pc' = "done"
    /\ link_op' = "convert_personal_onedrive_to_direct_link"
    /\ UNCHANGED <<share_url, history_vars>>

\* normalize_url: head and get are what the network answers (get: would answer)
NormalizeUrl ==
    /\ link_pc = "request"
    /\ \E head \in HeadResponses, get \in GetResponses :
         LET n == normalize_url(share_url, head, get)
         IN  link_out' = [out |-> n.out, requests |-> n.requests, head |-> head,
                          get |-> IF Len(n.requests) = 2 THEN get ELSE NoResponse]
    /\ link_pc' = "done"
    /\ link_op' = "normalize_url"
    /\ UNCHANGED <<share_url, history_vars>>

SpecPost == InitLink(PostUrls) /\ [][IndexPost]_vars

SpecRewrite == InitLink(RewriteUrls) /\ [][ConvertSharepoint \/ ConvertPersonal]_vars

SpecExpand == InitLink(PostUrls) /\ [][NormalizeUrl]_vars

(***************************************************************************)
(* The history requests, one at a time: each action is a whole request.    *)
(***************************************************************************)
MaxSaves == 3

Url(i) == "https://dl.example/" \o ToString(i)

SaveUrls == {Url(1), Url(HISTORY_LIMIT), Url(HISTORY_LIMIT + 1), Url(HISTORY_LIMIT + 2)}

Bodies ==
    {NoJson, Body(Absent, Absent, "notes", Absent, Absent),
     Body(Url(1), "1700000000000", "report.pdf", "2024-01-01 10:00:00",
          "https://1drv.ms/u/s!Abc")}
        \cup {Body(u, Absent, Absent, Absent, Absent) : u \in SaveUrls}

IoOutcomes == {"ok", "open_fails", "dump_fails"}

\* the item of the i-th of n earlier requests: for Url(i), at time i - n
EarlierItem(i, n) == HistoryItem(Body(Url(i), Absent, Absent, Absent, Absent), i - n)

\* the store after the first k of n earlier requests, each for a new url and
\* so put in front of the ones before it
PrefilledAt(k, n) == [i \in 1..k |-> EarlierItem(k + 1 - i, n)]

\* the store as n earlier requests left it
Prefilled(n) == PrefilledAt(n, n)

PrefillSizes == {0, HISTORY_LIMIT - 1, HISTORY_LIMIT}

\* each of these stores is what save_history makes of the one before it
PrefilledIsSavedInTurn ==
    \A n \in PrefillSizes : \A k \in 1..n :
        PrefilledAt(k, n) = Trim(Merge(PrefilledAt(k - 1, n), EarlierItem(k, n)))

PrefillTimes(n) == [u \in {Url(i) : i \in 1..n} |-> (CHOOSE i \in 1..n : Url(i) = u) - n]

NoLinkRequest ==
    /\ share_url = ""
    /\ link_pc = "none"
    /\ link_op = "none"
    /\ link_out = NoOut

link_vars == <<share_url, link_pc, link_op, link_out>>

InitHistory ==
    /\ NoLinkRequest
    /\ \E n \in PrefillSizes :
         /\ file = IF n = 0 THEN NoFile ELSE JsonFile(Prefilled(n))
         /\ inserted_at = PrefillTimes(n)
         /\ saved_at = PrefillTimes(n)
    /\ now = 0
    /\ last_save = [kind |-> "none"]
    /\ req = <<>>

\* save_history answers a body without url and touches nothing
SaveRejected(data) ==
    /\ BadBody(data)
    /\ last_save' = [kind |-> "rejected", data |-> data,
                     response |-> Failure("missing parameter")]
    /\ now' = now + 1
    /\ UNCHANGED <<file, inserted_at, saved_at>>

\* lines 282-308, with the loaded history, the item, the list written
SaveWrite(data, history, item, written, w) ==
    /\ file' = w.file
    /\ last_save' = Saved(data, item, history, written, Oldest(file),
                          IF w.ok THEN Success("history saved") ELSE Failure("save failed"))
    /\ now' = now + 1
    /\ inserted_at' = IF w.file = file THEN inserted_at
                      ELSE TimesAfter(inserted_at, load_history(w.file), item.url, now + 1, TRUE)
    /\ saved_at' = IF w.file = file THEN saved_at
                   ELSE TimesAfter(saved_at, load_history(w.file), item.url, now + 1, FALSE)

SaveMerged(data, io, history, item, written) ==
    SaveWrite(data, history, item, written, save_history_to_file(file, written, io))

SaveAccepted(data, io) ==
    /\ ~BadBody(data)
    /\ SaveMerged(data, io, load_history(file), HistoryItem(data, now + 1),
                  Trim(Merge(load_history(file), HistoryItem(data, now + 1))))

\* POST /save_history
SaveHistory ==
    /\ now < MaxSaves
    /\ \E data \in Bodies :
         \/ SaveRejected(data)
         \/ \E io \in IoOutcomes : SaveAccepted(data, io)
    /\ UNCHANGED <<link_vars, req>>

\* GET /history
GetHistory ==
    /\ last_save' = [kind |-> "get", response |-> [success |-> TRUE,
                                                   data |-> load_history(file)]]
    /\ UNCHANGED <<link_vars, file, now, inserted_at, saved_at, req>>

SpecHistory == InitHistory /\ [][SaveHistory \/ GetHistory]_vars

(***************************************************************************)
(* The history requests served at the same time: app.run serves each       *)
(* request on a thread of its own, and nothing in load_history,            *)
(* save_history_to_file or save_history takes a lock.  A request is cut at *)
(* its accesses to HISTORY_FILE: the read, the open for writing (which     *)
(* empties the file), the end of json.dump.                                *)
(***************************************************************************)
NumRequests == 2

\* the store the requests find
ConcStart == Prefilled(1)

ConcBodies == {Body(Url(i), Absent, Absent, Absent, Absent) : i \in 1..3}

NoItem == [id |-> "", url |-> "", remark |-> "", timestamp |-> "", original_url |-> ""]

\* a request that has arrived and has not run yet
Arrived(kind, data) ==
    [kind |-> kind, data |-> data, pc |-> "arrived", history |-> <<>>, item |-> NoItem,
     written |-> <<>>, saw_partial |-> FALSE]

Arrivals == {Arrived("save", d) : d \in ConcBodies} \cup {Arrived("get", NoJson)}

InitConc ==
    /\ NoLinkRequest
    /\ file = JsonFile(ConcStart)
    /\ inserted_at = PrefillTimes(1)
    /\ saved_at = PrefillTimes(1)
    /\ now = 0
    /\ last_save = [kind |-> "none"]
    /\ req \in [1..NumRequests -> Arrivals]

\* save_history up to the call of save_history_to_file: lines 276-302
SaveLoaded(r, f, t) ==
    [r EXCEPT !.pc = "merged",
              !.history = load_history(f),
              !.item = HistoryItem(r.data, t),
              !.written = Trim(Merge(load_history(f), HistoryItem(r.data, t))),
              !.saw_partial = (f = PartialFile)]

SaveLoad(i) ==
    /\ req[i].kind = "save"
    /\ req[i].pc = "arrived"
    /\ ~BadBody(req[i].data)
    /\ req' = [req EXCEPT ![i] = SaveLoaded(req[i], file, now + 1)]
    /\ now' = now + 1
    /\ UNCHANGED <<link_vars, file, inserted_at, saved_at, last_save>>

\* open(HISTORY_FILE, 'w'): line 234
SaveOpen(i) ==
    /\ req[i].pc = "merged"
    /\ file' = PartialFile
    /\ req' = [req EXCEPT ![i].pc = "opened"]
    /\ UNCHANGED <<link_vars, now, inserted_at, saved_at, last_save>>

\* json.dump and the close of the file: line 235
SaveDump(i) ==
    /\ req[i].pc = "opened"
    /\ file' = save_history_to_file(file, req[i].written, "ok").file
    /\ req' = [req EXCEPT ![i].pc = "done"]
    /\ UNCHANGED <<link_vars, now, inserted_at, saved_at, last_save>>

\* get_history: lines 316-318
GetLoad(i) ==
    /\ req[i].kind = "get"
    /\ req[i].pc = "arrived"
    /\ req' = [req EXCEPT ![i].pc = "done",
                          ![i].history = load_history(file),
                          ![i].saw_partial = (file = PartialFile)]
    /\ UNCHANGED <<link_vars, file, now, inserted_at, saved_at, last_save>>

ConcStep == \E i \in 1..NumRequests : SaveLoad(i) \/ SaveOpen(i) \/ SaveDump(i) \/ GetLoad(i)

SpecConc == InitConc /\ [][ConcStep]_vars

(***************************************************************************)
(* The history store: uniqueness, retention, order                         *)
(***************************************************************************)
\* the entries a reader of HISTORY_FILE gets
Stored == load_history(file)

\* the last request was a save_history that answered success
SaveDone == last_save.kind = "save" /\ last_save.response.success

\* the entry e has the url of the body d and every field d gives
FieldsOf(e, d) ==
    /\ e.url = d.url
    /\ d.id # Absent => e.id = d.id
    /\ d.remark # Absent => e.remark = d.remark
    /\ d.timestamp # Absent => e.timestamp = d.timestamp
    /\ d.original_url # Absent => e.original_url = d.original_url

\* C1: no two stored entries have the same url, and after a successful save
\* exactly one stored entry has the saved url and its fields are those of
\* that save.
C1_UrlUnique ==
    /\ Cardinality(UrlsOf(Stored)) = Len(Stored)
    /\ SaveDone =>
         /\ Cardinality({i \in 1..Len(Stored) : Stored[i].url = last_save.data.url}) = 1
         /\ \A i \in 1..Len(Stored) :
              Stored[i].url = last_save.data.url => FieldsOf(Stored[i], last_save.data)

\* from the empty store, two saves of one url, the later with other fields
C1_SavedTwice ==
    /\ SaveDone
    /\ last_save.existing_index = 1
    /\ last_save.data.remark = "report.pdf"
    /\ Len(Stored) = 1
    /\ inserted_at[last_save.data.url] = 1
    /\ saved_at[last_save.data.url] = 2

\* C2: the store never holds more than 100 entries, and a successful save of
\* a new url into a store of 100 leaves exactly 100 and drops exactly the
\* entry that was inserted earliest.
C2_AtMostLimit ==
    /\ Len(Stored) <= HISTORY_LIMIT
    /\ (SaveDone /\ last_save.loaded = HISTORY_LIMIT /\ last_save.existing_index = 0) =>
         /\ Len(Stored) = HISTORY_LIMIT
         /\ last_save.dropped = {last_save.oldest}
         /\ last_save.oldest \notin UrlsOf(Stored)
         /\ last_save.data.url \in UrlsOf(Stored)

\* a new url saved into a store of 100 in which an entry was overwritten
\* after it was inserted
C2_FullStoreNewUrl ==
    /\ SaveDone
    /\ last_save.loaded = HISTORY_LIMIT
    /\ last_save.existing_index = 0
    /\ \E u \in DOMAIN saved_at : saved_at[u] > inserted_at[u]

\* C4 as stated: the entry of the latest save is first and the entries are in
\* the order of their latest saves, the later save at the lower index.
C4_LatestSaveFirst ==
    /\ \A i \in 1..(Len(Stored) - 1) :
         saved_at[Stored[i].url] > saved_at[Stored[i + 1].url]
    /\ SaveDone => Stored[1].url = last_save.data.url

\* C4 as amended: the entries are in the order of their insertions, the later
\* insertion at the lower index; a save of a new url puts its entry first, a
\* save of a stored url replaces the entry where it is.
C4_InsertionOrder ==
    /\ \A i \in 1..(Len(Stored) - 1) :
         inserted_at[Stored[i].url] > inserted_at[Stored[i + 1].url]
    /\ (SaveDone /\ last_save.existing_index = 0) => Stored[1] = last_save.item
    /\ (SaveDone /\ last_save.existing_index # 0) =>
         /\ Stored[last_save.existing_index] = last_save.item
         /\ Len(Stored) = last_save.loaded

\* a save that overwrote an entry that was not the first
C4_OverwrittenInPlace ==
    /\ SaveDone
    /\ last_save.existing_index > 1
    /\ saved_at[last_save.data.url] > inserted_at[last_save.data.url]

(***************************************************************************)
(* The history store under requests served at the same time                *)
(***************************************************************************)
\* the ways to put the requests one after another
Orders ==
    {p \in [1..NumRequests -> 1..NumRequests] :
        \A i, j \in 1..NumRequests : p[i] = p[j] => i = j}

RECURSIVE SavesInOrder(_, _, _)
\* the store after the requests order[k], order[k+1], ... ran one at a time
SavesInOrder(history, order, k) ==
    IF k > NumRequests THEN history
    ELSE SavesInOrder(IF req[order[k]].kind = "save"
                      THEN Trim(Merge(history, req[order[k]].item))
                      ELSE history,
                      order, k + 1)

\* C3: no request reads the file being written as an empty history, and when
\* all requests are done the store is what the saves, run one after another
\* in some order, leave.
C3_Serialized ==
    /\ \A i \in 1..Len(req) : ~req[i].saw_partial
    /\ (\A i \in 1..Len(req) : req[i].pc = "done") =>
         /\ file.kind = "json"
         /\ \E p \in Orders : file.data = SavesInOrder(ConcStart, p, 1)

(***************************************************************************)
(* The link requests: host check, dialect, error boundary                  *)
(***************************************************************************)
\* the URL parse_onedrive_direct_link is given by index_post
InputUrl == Strip(share_url)

\* the hostname of the input: its authority part without userinfo and port,
\* in lower case
InputHostname == Lower(Hostname(UrlParse(InputUrl).netloc))

\* index_post has answered a request with a non-empty share_url
PostDone == link_pc = "done" /\ link_op = "index_post" /\ InputUrl # ""

\* C5: an input with an http(s) scheme whose hostname does not end with a
\* recognized suffix fails with the unsupported-host error, with no request
\* sent and no rewrite rule applied.
C5_UnsupportedHostRejected ==
    (/\ PostDone
     /\ HasHttpScheme(InputUrl)
     /\ \A suffix \in SupportedSuffixes : ~EndsWith(InputHostname, suffix))
        => /\ link_out.parse.out = Raise("OneDriveLinkError", MSG_HOST)
           /\ link_out.parse.requests = <<>>
           /\ link_out.parse.rule = "none"

\* C8: every POST / with a non-empty share_url renders the form with a result
\* or an error message; no exception leaves the handler.
C8_ErrorsRendered ==
    PostDone =>
        /\ link_out.rendered
        /\ link_out.escaped = ""
        /\ link_out.result # "" \/ link_out.error # ""

\* C9: for an input that passes the scheme and host checks the dialect is
\* chosen from the hostname alone: enterprise rule on the original URL and no
\* request when the hostname contains sharepoint.com, sharepoint.cn or
\* my.sharepoint; otherwise expansion first, then the personal rule on the
\* expanded URL.
C9_DialectFromHostname ==
    (/\ PostDone
     /\ HasHttpScheme(InputUrl)
     /\ UrlParse(InputUrl).ok
     /\ \E suffix \in SupportedSuffixes : EndsWith(InputHostname, suffix))
        => IF IsSharePoint(InputHostname)
           THEN /\ link_out.parse.rule = "enterprise"
                /\ link_out.parse.requests = <<>>
           ELSE /\ link_out.parse.requests # <<>>
                /\ link_out.parse.requests[1] = "HEAD"
                /\ link_out.parse.rule \in {"personal", "none"}
                /\ link_out.parse.rule = "none" =>
                     /\ link_out.parse.out.kind = "raise"
                     /\ StartsWith(link_out.parse.out.value, MSG_EXPAND)
                /\ link_out.parse.rule = "personal" =>
                     link_out.parse.out =
                         convert_personal_onedrive_to_direct_link(link_out.parse.expanded)

(***************************************************************************)
(* The rewrite rules                                                       *)
(***************************************************************************)
\* how often the pair p occurs in pairs
PairCount(pairs, p) == Cardinality({i \in 1..Len(pairs) : pairs[i] = p})

\* the places of the parameters named download, whatever the case
DownloadAt(pairs) == {i \in 1..Len(pairs) : Lower(pairs[i][1]) = "download"}

\* the personal rule was given a URL that takes its fallback branch
FallbackDone ==
    /\ link_pc = "done"
    /\ link_op = "convert_personal_onedrive_to_direct_link"
    /\ UrlParse(share_url).ok
    /\ ~HasKey(QueryDict(UrlParse(share_url).query), "redeem")
    /\ ~(/\ HasKey(QueryDict(UrlParse(share_url).query), "resid")
         /\ HasKey(QueryDict(UrlParse(share_url).query), "authkey"))

\* the claim of C6 about the input parsed as given and the output parsed as out
FallbackKeeps(given, out, result) ==
    /\ out.scheme = given.scheme
    /\ out.netloc = given.netloc
    /\ out.path = given.path
    /\ out.fragment = given.fragment
    /\ \A i \in 1..Len(ParseQsl(given.query)) :
         PairCount(ParseQsl(out.query), ParseQsl(given.query)[i])
             >= PairCount(ParseQsl(given.query), ParseQsl(given.query)[i])
    /\ DownloadAt(ParseQsl(given.query)) = {}
         <=> Len(ParseQsl(out.query)) = Len(ParseQsl(given.query)) + 1
    /\ DownloadAt(ParseQsl(given.query)) = {}
         => PairCount(ParseQsl(out.query), <<"download", "1">>) = 1
    /\ Cardinality({i \in 1..Len(ParseQsl(out.query)) :
                       ParseQsl(out.query)[i][1] = "download"}) <= 1
    /\ ensure_download_param_fallback(result) = Return(result)

\* C6: in the fallback branch the output keeps scheme, host, path, fragment
\* and every query parameter with each of its values, adds download=1 exactly
\* when no download parameter is there, never has two, and is a fixed point
\* of the fallback.
C6_FallbackKeepsQuery ==
    FallbackDone =>
        /\ link_out.kind = "return"
        /\ FallbackKeeps(UrlParse(share_url), UrlParse(link_out.value), link_out.value)

\* the path of the URL as written: from the end of the authority to the
\* first "?" or "#"
WrittenPath(url) == UrlSplit(url).path

\* the path is /:u:/g/personal/<user>/<token>, both runs non-empty
HasShape(path) ==
    /\ StartsWith(path, SharePrefix)
    /\ Len(Split(From(path, Len(SharePrefix) + 1), "/")) = 2
    /\ Split(From(path, Len(SharePrefix) + 1), "/")[1] # ""
    /\ Split(From(path, Len(SharePrefix) + 1), "/")[2] # ""

\* the direct URL C7 names for a URL of that shape; the host with its port
ShapedLink(url) ==
    "https://" \o AfterLast(UrlSplit(url).netloc, "@") \o "/personal/"
        \o Split(From(WrittenPath(url), Len(SharePrefix) + 1), "/")[1]
        \o "/_layouts/52/download.aspx?share="
        \o Split(From(WrittenPath(url), Len(SharePrefix) + 1), "/")[2]

\* C7: a URL whose path is /:u:/g/personal/<user>/<token> gives exactly
\* https://<host>/personal/<user>/_layouts/52/download.aspx?share=<token>;
\* any other URL gives the pattern-mismatch error, whose text has the URL (at
\* its end).
C7_EnterpriseRewrite ==
    (link_pc = "done" /\ link_op = "convert_sharepoint_to_direct_link") =>
        IF HasShape(WrittenPath(share_url))
        THEN link_out = Return(ShapedLink(share_url))
        ELSE /\ link_out.kind = "raise"
             /\ link_out.exc = "OneDriveLinkError"
             /\ EndsWith(link_out.value, share_url)

(***************************************************************************)
(* The redirect expander                                                   *)
(***************************************************************************)
\* C10: normalize_url sends one HEAD first and at most one GET after it, the
\* GET exactly when the HEAD response has status 403 or 405 or is a redirect;
\* it returns the URL of the GET response then and of the HEAD response
\* otherwise; a request that fails ends the call with the resolution error
\* naming it, and nothing is sent after it.
C10_HeadThenGet ==
    (link_pc = "done" /\ link_op = "normalize_url") =>
        /\ link_out.requests \in {<<"HEAD">>, <<"HEAD", "GET">>}
        /\ link_out.requests = <<"HEAD", "GET">>
             <=> /\ ~link_out.head.fail
                 /\ \/ link_out.head.status \in {403, 405}
                    \/ link_out.head.is_redirect
        /\ link_out.head.fail =>
             link_out.out = Raise("OneDriveLinkError", MSG_EXPAND \o "HEAD")
        /\ (link_out.requests = <<"HEAD", "GET">> /\ link_out.get.fail) =>
             link_out.out = Raise("OneDriveLinkError", MSG_EXPAND \o "GET")
        /\ (link_out.requests = <<"HEAD", "GET">> /\ ~link_out.get.fail) =>
             link_out.out = Return(link_out.get.url)
        /\ (link_out.requests = <<"HEAD">> /\ ~link_out.head.fail) =>
             link_out.out = Return(link_out.head.url)

\* a HEAD answered 403, then a GET whose URL is returned
C10_GetAfter403 ==
    /\ link_pc = "done"
    /\ link_op = "normalize_url"
    /\ link_out.head.status = 403
    /\ link_out.requests = <<"HEAD", "GET">>
    /\ link_out.out = Return(link_out.get.url)

====
